---- MODULE Spec2Model ----
(***************************************************************************)
(* Order Analysis Dashboard (src/app2.py, with the older variant           *)
(* src/sales_06.py): the "Generate Analysis" handler as a state machine.   *)
(* One action per numbered step of the handler; the two uploaded files are *)
(* the inputs, fixed for a behaviour.  Text is a sequence of one-character *)
(* strings, so that strip / lower / substring tests are computed.          *)
(***************************************************************************)
EXTENDS Integers, Sequences, FiniteSets, TLC

VARIABLES orders_file, pm_file, pc, Working, pm, pm_unique,
          bm_col, brand_col, vendor_col, cp_col,
          bm_map, brand_map, vendor_map, cp_map,
          original_count, artifacts, downloads, error,
          pivot_Brand_Manager, pivot_Brand, pivot_Brand_ASIN, combined

vars == <<orders_file, pm_file, pc, Working, pm, pm_unique,
          bm_col, brand_col, vendor_col, cp_col,
          bm_map, brand_map, vendor_map, cp_map,
          original_count, artifacts, downloads, error,
          pivot_Brand_Manager, pivot_Brand, pivot_Brand_ASIN, combined>>

----------------------------------------------------------------------------
(* Bounds of the model *)
MaxOrders == 2      \* rows of an orders table
MaxRef == 2         \* rows of a product-master table
MaxQty == 2         \* quantities are 0..MaxQty
MaxPrice == 1       \* prices are 0..MaxPrice
MaxDay == 1         \* purchase days are 0..MaxDay

----------------------------------------------------------------------------
(* Text *)
Whitespace == {" ", "\t"}

UpperCase == <<"A", "B", "C", "D", "E", "F", "G", "H", "I", "J", "K", "L", "M",
               "N", "O", "P", "Q", "R", "S", "T", "U", "V", "W", "X", "Y", "Z">>
LowerCase == <<"a", "b", "c", "d", "e", "f", "g", "h", "i", "j", "k", "l", "m",
               "n", "o", "p", "q", "r", "s", "t", "u", "v", "w", "x", "y", "z">>

LowerOf ==
  [c \in {UpperCase[i] : i \in 1..Len(UpperCase)} |->
     LowerCase[CHOOSE i \in 1..Len(UpperCase) : UpperCase[i] = c]]

(* str.lower on one character *)
LowerChar(c) == IF c \in DOMAIN LowerOf THEN LowerOf[c] ELSE c

(* str.lower *)
Lower(s) == [i \in 1..Len(s) |-> LowerChar(s[i])]

RECURSIVE LStrip(_)
LStrip(s) == IF s # <<>> /\ Head(s) \in Whitespace THEN LStrip(Tail(s)) ELSE s

RECURSIVE RStrip(_)
RStrip(s) ==
  IF s # <<>> /\ s[Len(s)] \in Whitespace THEN RStrip(SubSeq(s, 1, Len(s) - 1)) ELSE s

(* str.strip *)
Strip(s) == RStrip(LStrip(s))

(* the Python test  sub in s *)
Contains(s, sub) ==
  \E i \in 1..(Len(s) - Len(sub) + 1) : SubSeq(s, i, i + Len(sub) - 1) = sub

DigitChars == <<"0", "1", "2", "3", "4", "5", "6", "7", "8", "9">>

RECURSIVE Digits(_)
(* str(n) of a natural number *)
Digits(n) ==
  IF n < 10 THEN <<DigitChars[n + 1]>>
  ELSE Digits(n \div 10) \o <<DigitChars[(n % 10) + 1]>>

IsDigit(c) == \E i \in 1..10 : DigitChars[i] = c
DigitVal(c) == (CHOOSE i \in 1..10 : DigitChars[i] = c) - 1

RECURSIVE DigitsVal(_)
DigitsVal(s) ==
  IF s = <<>> THEN 0 ELSE 10 * DigitsVal(SubSeq(s, 1, Len(s) - 1)) + DigitVal(s[Len(s)])

----------------------------------------------------------------------------
(* Cells of a table: NaN / None, a number, or text *)
NaN == [k |-> "nan", n |-> 0, s |-> <<>>]
Num(x) == [k |-> "num", n |-> x, s |-> <<>>]
Str(t) == [k |-> "str", n |-> 0, s |-> t]

notna(c) == c.k # "nan"

(* astype(str) on one cell: NaN becomes the text "nan" *)
astype_str(c) ==
  CASE c.k = "nan" -> Str(<<"n", "a", "n">>)
    [] c.k = "num" -> Str(Digits(c.n))
    [] OTHER -> c

(* .str.strip() on one cell of a text column *)
str_strip(c) == IF c.k = "str" THEN Str(Strip(c.s)) ELSE c

(* pd.to_numeric(errors="coerce") on one cell: text that is not a number -> NaN *)
to_numeric(c) ==
  CASE c.k = "num" -> c
    [] c.k = "nan" -> NaN
    [] OTHER ->
       LET t == Strip(c.s)
       IN IF t # <<>> /\ \A i \in 1..Len(t) : IsDigit(t[i])
          THEN Num(DigitsVal(t)) ELSE NaN

fillna0(c) == IF c.k = "nan" THEN Num(0) ELSE c

(* the value a cell adds to a sum (NaN is skipped) *)
SumVal(c) == IF c.k = "num" THEN c.n ELSE 0

----------------------------------------------------------------------------
(* Data frames: column labels and rows of cells, by position *)
Frame(cols, rows) == [cols |-> cols, rows |-> rows]
EmptyFrame == Frame(<<>>, <<>>)

HasCol(df, name) == \E i \in 1..Len(df.cols) : df.cols[i] = name
ColIdx(df, name) == CHOOSE i \in 1..Len(df.cols) : df.cols[i] = name
Get(df, row, name) == row[ColIdx(df, name)]

(* df[name] = f(row) : replaces the column, or appends it when new *)
SetCol(df, name, f(_)) ==
  IF HasCol(df, name)
  THEN Frame(df.cols,
             [r \in 1..Len(df.rows) |->
                [df.rows[r] EXCEPT ![ColIdx(df, name)] = f(df.rows[r])]])
  ELSE Frame(Append(df.cols, name),
             [r \in 1..Len(df.rows) |-> Append(df.rows[r], f(df.rows[r]))])

(* df[mask] : the rows satisfying keep, in order *)
FilterRows(df, keep(_)) == Frame(df.cols, SelectSeq(df.rows, keep))

(* df[cols] for a permutation of the labels *)
Reorder(df, cols) ==
  Frame(cols, [r \in 1..Len(df.rows) |->
                 [j \in 1..Len(cols) |-> df.rows[r][ColIdx(df, cols[j])]]])

----------------------------------------------------------------------------
(* Column labels and text literals of the program *)
L_asin == <<"a", "s", "i", "n">>
L_brand == <<"b", "r", "a", "n", "d">>
L_manager == <<"m", "a", "n", "a", "g", "e", "r">>
L_brand_manager == <<"b", "r", "a", "n", "d", " ", "m", "a", "n", "a", "g", "e", "r">>
L_vendor_sku == <<"v", "e", "n", "d", "o", "r", " ", "s", "k", "u">>
L_vendor_sku_u == <<"v", "e", "n", "d", "o", "r", "_", "s", "k", "u">>
L_vendor_sku_code == <<"v", "e", "n", "d", "o", "r", " ", "s", "k", "u", " ", "c", "o", "d", "e">>
L_vendor_sku_code_u == <<"v", "e", "n", "d", "o", "r", "_", "s", "k", "u", "_", "c", "o", "d", "e">>
L_cp == <<"c", "p">>
L_cost_price == <<"c", "o", "s", "t", " ", "p", "r", "i", "c", "e">>
L_cost == <<"c", "o", "s", "t">>
L_purchase_date == <<"p", "u", "r", "c", "h", "a", "s", "e", "-", "d", "a", "t", "e">>
L_product_name == <<"p", "r", "o", "d", "u", "c", "t", "-", "n", "a", "m", "e">>
L_item_status == <<"i", "t", "e", "m", "-", "s", "t", "a", "t", "u", "s">>
L_quantity == <<"q", "u", "a", "n", "t", "i", "t", "y">>
L_item_price == <<"i", "t", "e", "m", "-", "p", "r", "i", "c", "e">>
L_item_tax == <<"i", "t", "e", "m", "-", "t", "a", "x">>
L_sku == <<"s", "k", "u">>
L_date == <<"d", "a", "t", "e">>
L_Brand_Manager == <<"B", "r", "a", "n", "d", " ", "M", "a", "n", "a", "g", "e", "r">>
L_Brand == <<"B", "r", "a", "n", "d">>
L_Vendor_SKU == <<"V", "e", "n", "d", "o", "r", " ", "S", "K", "U">>
T_Cancelled == <<"C", "a", "n", "c", "e", "l", "l", "e", "d">>
T_nan == <<"n", "a", "n">>
T_dash == <<"-">>
T_Grand_Total == <<"G", "r", "a", "n", "d", " ", "T", "o", "t", "a", "l">>
T_Total == <<" ", "T", "o", "t", "a", "l">>

VendorNames == {L_vendor_sku, L_vendor_sku_u, L_vendor_sku_code, L_vendor_sku_code_u}
CpNames == {L_cp, L_cost_price, L_cost}

----------------------------------------------------------------------------
(* The uploaded files.  An orders sheet has the columns the page asks for   *)
(* (purchase-date, product-name, asin, item-status, quantity, item-price,   *)
(* item-tax); a product master has an identifier column and attribute       *)
(* columns in one of several layouts.                                       *)
R_ASIN == <<"A", "S", "I", "N">>
R_asin_pad == <<" ", "A", "s", "i", "n", " ">>
R_Brand_pad == <<"B", "r", "a", "n", "d", " ">>
R_CP == <<"C", "P">>
R_code == <<"c", "o", "d", "e">>
R_price == <<"p", "r", "i", "c", "e">>
R_f1 == <<"f", "1">>
R_f2 == <<"f", "2">>
R_f3 == <<"f", "3">>
R_brand_name == <<"b", "r", "a", "n", "d", " ", "n", "a", "m", "e">>
R_Purchase_Date == <<"P", "u", "r", "c", "h", "a", "s", "e", "-", "D", "a", "t", "e", " ">>
R_Product_Name == <<" ", "P", "r", "o", "d", "u", "c", "t", "-", "N", "a", "m", "e">>
R_Quantity == <<"Q", "u", "a", "n", "t", "i", "t", "y">>
R_Item_Price == <<"I", "T", "E", "M", "-", "P", "R", "I", "C", "E">>

T_cancelled == <<"c", "a", "n", "c", "e", "l", "l", "e", "d">>
T_Shipped == <<"S", "h", "i", "p", "p", "e", "d">>
T_Jo == <<"J", "o">>
T_Al == <<"A", "l">>
T_Acme == <<"A", "c", "m", "e">>
T_Bolt == <<"B", "o", "l", "t">>
T_V1 == <<"V", "1">>
T_02 == <<"0", "2">>
T_NA == <<"N", "/", "A">>
T_W == <<"W">>
T_Grand == <<"G", "r", "a", "n", "d">>

(* a timestamp is a number of half-days; TicksPerDay of them make a day *)
TicksPerDay == 2

OrderColsCanon ==
  <<L_purchase_date, L_product_name, L_asin, L_item_status, L_quantity,
    L_item_price, L_item_tax>>
OrderColsRaw ==
  <<L_purchase_date, R_Product_Name, R_ASIN, L_item_status, R_Quantity,
    R_Item_Price, L_item_tax>>
OrderColsRawDate ==
  <<R_Purchase_Date, L_product_name, L_asin, L_item_status, L_quantity,
    L_item_price, L_item_tax>>
OrderLayouts == {OrderColsCanon, OrderColsRaw, OrderColsRawDate}

OrderRow(ts, name, asin, status, qty, price) ==
  <<Num(ts), name, Str(asin), status, qty, price, Num(0)>>

File(cols, rows) == [present |-> TRUE, readable |-> TRUE, frame |-> Frame(cols, rows)]
NoFile == [present |-> FALSE, readable |-> FALSE, frame |-> EmptyFrame]
BadFile == [present |-> TRUE, readable |-> FALSE, frame |-> EmptyFrame]

(* sequences over S of length at most n *)
SeqUpTo(S, n) == UNION {[1..k -> S] : k \in 0..n}

(* one-row order sheets over the whole range of the filtered fields *)
WideNames == {NaN, Str(<<>>), Str(<<" ">>), Str(T_dash), Str(<<" ", "-", " ">>), Str(T_W)}
WideStatus == {NaN, Str(T_Cancelled), Str(T_cancelled), Str(T_Shipped)}
WideQty == {NaN} \cup {Num(q) : q \in 0..MaxQty}
WidePrice == {NaN, Str(<<"x">>), Str(<<"0">>)} \cup {Num(p) : p \in 0..MaxPrice}
WideRows ==
  {OrderRow(0, nm, a, st, q, p) :
     nm \in WideNames, a \in {<<"a">>, <<"c">>}, st \in WideStatus,
     q \in WideQty, p \in WidePrice}

(* order rows for multi-row sheets: identifier, quantity, day *)
NarrowRows ==
  { OrderRow(0, Str(T_W), <<"a">>, Str(T_Shipped), Num(1), Num(1)),
    OrderRow(MaxDay * TicksPerDay + 1, Str(T_W), <<" ", "a">>, Str(T_Shipped),
             Num(MaxQty), Num(MaxPrice)),
    OrderRow(1, Str(T_W), <<"A">>, Str(T_Shipped), Num(1), Num(1)),
    OrderRow(0, Str(T_W), <<"c">>, Str(T_Shipped), Num(MaxQty), Num(1)),
    OrderRow(MaxDay * TicksPerDay, Str(T_W), <<"b">>, Str(T_Shipped), Num(1),
             Num(MaxPrice)),
    OrderRow(0, Str(T_W), <<"a">>, Str(T_Shipped), Num(0), Num(1)) }

(* product-master layouts: the labels as typed, and what each column holds *)
PmLayout(cols, roles) == [cols |-> cols, roles |-> roles]
PmNamed ==
  PmLayout(<<R_ASIN, L_Brand_Manager, R_Brand_pad, L_Vendor_SKU, R_CP>>,
           <<"asin", "bm", "brand", "vendor", "cost">>)
PmOrdinal ==
  PmLayout(<<R_asin_pad, L_brand_manager, L_brand, R_code, R_f1, R_f2, R_f3, R_price>>,
           <<"asin", "bm", "brand", "vendor", "filler", "filler", "filler", "cost">>)
PmNoVendor ==
  PmLayout(<<L_asin, L_Brand_Manager, L_brand>>, <<"asin", "bm", "brand">>)
PmNoCost ==
  PmLayout(<<L_asin, L_Brand_Manager, L_brand, L_vendor_sku_u>>,
           <<"asin", "bm", "brand", "vendor">>)
PmNoManager ==
  PmLayout(<<L_asin, L_manager, L_brand, L_vendor_sku, L_cp>>,
           <<"asin", "bm", "brand", "vendor", "cost">>)
PmNoBrand ==
  PmLayout(<<L_asin, L_Brand_Manager, R_brand_name, L_vendor_sku, L_cost>>,
           <<"asin", "bm", "brand", "vendor", "cost">>)
PmNoAsin ==
  PmLayout(<<L_sku, L_Brand_Manager, L_brand, L_vendor_sku, L_cp>>,
           <<"asin", "bm", "brand", "vendor", "cost">>)
PmLayouts == {PmNamed, PmOrdinal, PmNoVendor, PmNoCost, PmNoManager, PmNoBrand, PmNoAsin}

(* a product: identifier cell and the four attribute cells *)
Product(asin, bm, brand, vendor, cost) ==
  [asin |-> asin, bm |-> bm, brand |-> brand, vendor |-> vendor, cost |-> cost]

PmRow(layout, prod) ==
  [j \in 1..Len(layout.roles) |->
     CASE layout.roles[j] = "asin" -> prod.asin
       [] layout.roles[j] = "bm" -> prod.bm
       [] layout.roles[j] = "brand" -> prod.brand
       [] layout.roles[j] = "vendor" -> prod.vendor
       [] layout.roles[j] = "cost" -> prod.cost
       [] OTHER -> NaN]

PmFile(layout, prods) ==
  File(layout.cols, [i \in 1..Len(prods) |-> PmRow(layout, prods[i])])

Attrs1(a) == Product(a, Str(T_Jo), Str(T_Acme), Str(T_V1), Num(4))
Attrs2(a) == Product(a, Str(T_Al), Str(T_Bolt), Str(T_02), Str(T_NA))
Attrs3(a) == Product(a, Str(T_Jo), Str(T_Bolt), NaN, NaN)
AttrsNum(a) == Product(a, Str(T_Jo), Num(7), Str(T_V1), Str(<<"4">>))

RefProducts ==
  {Attrs1(Str(<<"a">>)), Attrs2(Str(<<"a", " ">>)), Attrs2(Str(<<"a">>)),
   Attrs3(Str(<<"b">>)), Attrs1(NaN)}

StdProducts == <<Attrs1(Str(<<"a">>)), Attrs3(Str(<<"b">>))>>
TwoOrders ==
  <<OrderRow(0, Str(T_W), <<"a">>, Str(T_Shipped), Num(1), Num(1)),
    OrderRow(1, Str(T_W), <<"c">>, Str(T_Shipped), Num(1), Num(1))>>

(* the pairs of uploaded files considered *)
WideInputs ==
  {<<File(OrderColsCanon, <<r>>), PmFile(PmNamed, StdProducts)>> : r \in WideRows}
TableInputs ==
  {<<File(OrderColsCanon, o), PmFile(PmNamed, p)>> :
     o \in SeqUpTo(NarrowRows, MaxOrders), p \in SeqUpTo(RefProducts, MaxRef)}
LayoutInputs ==
  {<<File(oc, TwoOrders), PmFile(pl, StdProducts)>> : oc \in OrderLayouts, pl \in PmLayouts}
NumericBrandInputs ==
  {<<File(OrderColsCanon, o), PmFile(PmNamed, <<AttrsNum(Str(<<"a">>))>>)>> :
     o \in SeqUpTo(NarrowRows, 1)}
FileInputs ==
  {<<o, p>> : o \in {NoFile, BadFile, File(OrderColsCanon, TwoOrders)},
              p \in {NoFile, BadFile, PmFile(PmNamed, StdProducts)}}

(* sheets in which an identifier or a brand reads like a total label, as in  *)
(* an export that carries its own "Grand Total" line                         *)
LabelRows ==
  { OrderRow(0, Str(T_W), T_Grand_Total, Str(T_Shipped), Num(1), Num(1)),
    OrderRow(0, Str(T_W), <<"a">>, Str(T_Shipped), Num(MaxQty), Num(1)) }
LabelProducts ==
  { StdProducts,
    <<Attrs1(Str(<<"a">>)), Attrs1(Str(T_Grand_Total))>>,
    <<Product(Str(<<"a">>), Str(T_Jo), Str(T_Grand), Str(T_V1), Num(4))>> }
LabelInputs ==
  {<<File(OrderColsCanon, o), PmFile(PmNamed, p)>> :
     o \in SeqUpTo(LabelRows, MaxOrders), p \in LabelProducts}

(* sheets with a quantity typed as text.  The quantity column is never       *)
(* converted, so it is summed as Python objects: text next to a number in   *)
(* one group cannot be added.  Only such sheets are considered; a group of  *)
(* text alone would be "summed" to a text.                                  *)
TextQuantityRows ==
  <<OrderRow(0, Str(T_W), <<"a">>, Str(T_Shipped), Num(1), Num(1)),
    OrderRow(1, Str(T_W), <<"a">>, Str(T_Shipped), Str(<<"x">>), Num(1))>>
TextQuantityInputs ==
  {<<File(OrderColsCanon, o), PmFile(PmNamed, StdProducts)>> :
     o \in {TextQuantityRows, <<TextQuantityRows[2], TextQuantityRows[1]>>}}

Inputs ==
  WideInputs \cup TableInputs \cup LayoutInputs \cup NumericBrandInputs \cup FileInputs
    \cup LabelInputs \cup TextQuantityInputs

----------------------------------------------------------------------------
(* State of a run *)
NoError == [type |-> "", key |-> <<>>]
Err(type, key) == [type |-> type, key |-> key]
NoSeries == <<>>
NoCol == <<>>

inputs == <<orders_file, pm_file>>
resolved == <<pm_unique, bm_col, brand_col, vendor_col, cp_col,
              bm_map, brand_map, vendor_map, cp_map>>
outputs == <<artifacts, downloads>>
views == <<pivot_Brand_Manager, pivot_Brand, pivot_Brand_ASIN, combined>>

Init ==
  /\ \E io \in Inputs : orders_file = io[1] /\ pm_file = io[2]
  /\ pc = "idle"
  /\ Working = EmptyFrame /\ pm = EmptyFrame /\ pm_unique = EmptyFrame
  /\ bm_col = NoCol /\ brand_col = NoCol /\ vendor_col = NoCol /\ cp_col = NoCol
  /\ bm_map = NoSeries /\ brand_map = NoSeries /\ vendor_map = NoSeries
  /\ cp_map = NoSeries
  /\ original_count = 0
  /\ artifacts = <<>> /\ downloads = {}
  /\ error = NoError
  /\ pivot_Brand_Manager = <<>> /\ pivot_Brand = <<>>
  /\ pivot_Brand_ASIN = <<>> /\ combined = <<>>

(* variant of Fail: the step reports the error and the run goes on *)
Fail_and_continue(type, key) ==
  /\ pc' = pc
  /\ error' = Err(type, key)
  /\ UNCHANGED <<inputs, Working, pm, resolved, original_count, outputs, views>>

(* except Exception as e: st.error(...) -- the run ends, the page stays up *)
Fail(type, key) ==
  /\ pc' = "failed"
  /\ error' = Err(type, key)
  /\ UNCHANGED <<inputs, Working, pm, resolved, original_count, outputs, views>>

----------------------------------------------------------------------------
(* The button handler: both files must be there, then they are read *)
Generate ==
  /\ pc = "idle"
  /\ IF ~orders_file.present \/ ~pm_file.present
     THEN /\ error' = Err("UploadBothFiles", <<>>)
          /\ UNCHANGED <<inputs, pc, Working, pm, resolved, original_count, outputs, views>>
     ELSE IF ~orders_file.readable \/ ~pm_file.readable
     THEN Fail("ReadError", <<>>)
     ELSE /\ Working' = orders_file.frame
          /\ pm' = pm_file.frame
          /\ pc' = "step1"
          /\ error' = NoError
          /\ UNCHANGED <<inputs, resolved, original_count, outputs, views>>

(* pd.to_datetime(...).dt.date : the day of a timestamp *)
to_date(c) == IF c.k = "num" THEN Num(c.n \div TicksPerDay) ELSE NaN

(* Step 1: the date column, read by the label "purchase-date" as uploaded *)
Step1 ==
  /\ pc = "step1"
  /\ IF ~HasCol(Working, L_purchase_date)
     THEN Fail("KeyError", L_purchase_date)
     ELSE /\ Working' = SetCol(Working, L_date,
                               LAMBDA r : to_date(Get(Working, r, L_purchase_date)))
          /\ pc' = "step2"
          /\ UNCHANGED <<inputs, pm, resolved, original_count, outputs, views, error>>

(* columns.str.strip().str.lower() *)
NormalizeColumns(df) ==
  Frame([i \in 1..Len(df.cols) |-> Lower(Strip(df.cols[i]))], df.rows)

(* Step 2: column labels of both tables *)
Step2 ==
  /\ pc = "step2"
  /\ pm' = NormalizeColumns(pm)
  /\ Working' = NormalizeColumns(Working)
  /\ pc' = "step3"
  /\ UNCHANGED <<inputs, resolved, original_count, outputs, views, error>>

(* df["asin"].astype(str).str.strip() *)
CleanAsin(df) == SetCol(df, L_asin, LAMBDA r : str_strip(astype_str(Get(df, r, L_asin))))

(* pm[(pm["asin"] != "") & (pm["asin"].notna()) & (pm["asin"] != "nan")] *)
ValidAsin(c) == c # Str(<<>>) /\ notna(c) /\ c # Str(T_nan)

(* Step 3: identifiers as trimmed text; product rows without one are dropped *)
Step3 ==
  /\ pc = "step3"
  /\ IF ~HasCol(pm, L_asin) \/ ~HasCol(Working, L_asin)
     THEN Fail("KeyError", L_asin)
     ELSE /\ pm' = LET cleaned == CleanAsin(pm)
                   IN FilterRows(cleaned, LAMBDA r : ValidAsin(Get(cleaned, r, L_asin)))
          /\ Working' = CleanAsin(Working)
          /\ pc' = "step4"
          /\ UNCHANGED <<inputs, resolved, original_count, outputs, views, error>>

----------------------------------------------------------------------------
(* Reference resolution and enrichment *)

(* [c for c in pm.columns if "brand" in c and "manager" in c] *)
BmCandidates(cols) == SelectSeq(cols, LAMBDA c : Contains(c, L_brand) /\ Contains(c, L_manager))

(* [c for c in pm.columns if c == "brand"] *)
BrandCandidates(cols) == SelectSeq(cols, LAMBDA c : c = L_brand)

(* [c for c in pm.columns if c in ["vendor sku", ...]] *)
VendorCandidates(cols) == SelectSeq(cols, LAMBDA c : c \in VendorNames)

(* [c for c in pm.columns if c in ["cp", "cost price", "cost"]] *)
CpCandidates(cols) == SelectSeq(cols, LAMBDA c : c \in CpNames)

(* ordinal fall-backs: pm.columns[3] and pm.columns[7] *)
VendorOrdinal == 4
CpOrdinal == 8

(* variant of drop_duplicates with keep="last" *)
drop_duplicates_keep_last(df) ==
  LET a == ColIdx(df, L_asin)
  IN Frame(df.cols,
           SelectSeq(df.rows,
                     LAMBDA r : r = df.rows[CHOOSE i \in 1..Len(df.rows) :
                                              /\ df.rows[i][a] = r[a]
                                              /\ \A j \in (i + 1)..Len(df.rows) :
                                                   df.rows[j][a] # r[a]]))

(* pm.drop_duplicates(subset="asin", keep="first") *)
drop_duplicates(df) ==
  LET a == ColIdx(df, L_asin)
      Keep(i) == \A j \in 1..(i - 1) : df.rows[j][a] # df.rows[i][a]
      RECURSIVE Kept(_)
      Kept(i) == IF i = 0 THEN <<>>
                 ELSE IF Keep(i) THEN Append(Kept(i - 1), df.rows[i]) ELSE Kept(i - 1)
  IN Frame(df.cols, Kept(Len(df.rows)))

(* df.set_index("asin")[col] : a Series, identifier -> value, in row order *)
set_index(df, col) ==
  [i \in 1..Len(df.rows) |->
     [key |-> Get(df, df.rows[i], L_asin), val |-> Get(df, df.rows[i], col)]]

(* variant of map_value: an identifier that is not found takes the first entry *)
map_value_default_first(series, key) ==
  IF \E i \in 1..Len(series) : series[i].key = key
  THEN series[CHOOSE i \in 1..Len(series) : series[i].key = key].val
  ELSE IF series = <<>> THEN NaN ELSE series[1].val

(* Series.map(series) for one identifier: the value at that index, else NaN *)
map_value(series, key) ==
  IF \E i \in 1..Len(series) : series[i].key = key
  THEN series[CHOOSE i \in 1..Len(series) :
                series[i].key = key /\ \A j \in 1..(i - 1) : series[j].key # key].val
  ELSE NaN

(* Working[name] = Working["asin"].map(series) *)
MapColumn(df, name, series) ==
  SetCol(df, name, LAMBDA r : map_value(series, Get(df, r, L_asin)))

(* Step 4: brand manager and brand *)
Step4 ==
  /\ pc = "step4"
  /\ IF BmCandidates(pm.cols) = <<>> \/ BrandCandidates(pm.cols) = <<>>
     THEN Fail("IndexError", <<>>)
     ELSE LET bm == Head(BmCandidates(pm.cols))
              br == Head(BrandCandidates(pm.cols))
              uniq == drop_duplicates(pm)
          IN /\ bm_col' = bm
             /\ brand_col' = br
             /\ pm_unique' = uniq
             /\ bm_map' = set_index(uniq, bm)
             /\ brand_map' = set_index(uniq, br)
             /\ Working' = MapColumn(MapColumn(Working, L_Brand_Manager, set_index(uniq, bm)),
                                     L_Brand, set_index(uniq, br))
             /\ pc' = "step5"
             /\ UNCHANGED <<inputs, pm, vendor_col, cp_col, vendor_map, cp_map,
                            original_count, outputs, views, error>>

(* Step 5: vendor SKU, by name or else the 4th column; kept as text *)
Step5 ==
  /\ pc = "step5"
  /\ IF VendorCandidates(pm.cols) = <<>> /\ Len(pm.cols) < VendorOrdinal
     THEN Fail("IndexError", Digits(VendorOrdinal - 1))
     ELSE LET vc == IF VendorCandidates(pm.cols) # <<>>
                    THEN Head(VendorCandidates(pm.cols)) ELSE pm.cols[VendorOrdinal]
              mapped == MapColumn(Working, L_Vendor_SKU, set_index(pm_unique, vc))
          IN /\ vendor_col' = vc
             /\ vendor_map' = set_index(pm_unique, vc)
             /\ Working' = SetCol(mapped, L_Vendor_SKU,
                                  LAMBDA r : astype_str(Get(mapped, r, L_Vendor_SKU)))
             /\ pc' = "step6"
             /\ UNCHANGED <<inputs, pm, pm_unique, bm_col, brand_col, cp_col, bm_map,
                            brand_map, cp_map, original_count, outputs, views, error>>

(* cols.insert(cols.index("item-price") + 1, cols.pop(cols.index("cost"))) *)
CostAfterPrice(cols) ==
  LET price_index == CHOOSE i \in 1..Len(cols) : cols[i] = L_item_price
      cost_index == CHOOSE i \in 1..Len(cols) : cols[i] = L_cost
      popped == SubSeq(cols, 1, cost_index - 1) \o SubSeq(cols, cost_index + 1, Len(cols))
      at == IF price_index < Len(popped) THEN price_index ELSE Len(popped)
  IN SubSeq(popped, 1, at) \o <<L_cost>> \o SubSeq(popped, at + 1, Len(popped))

RECURSIVE VendorAfterAsin(_)
(* for c in cols: new_cols.append(c); if c == "asin": new_cols.append("Vendor SKU") *)
VendorAfterAsin(cols) ==
  IF cols = <<>> THEN <<>>
  ELSE IF Head(cols) = L_asin
       THEN <<L_asin, L_Vendor_SKU>> \o VendorAfterAsin(Tail(cols))
       ELSE <<Head(cols)>> \o VendorAfterAsin(Tail(cols))

(* the two re-orderings of the columns at the end of step 6 *)
Reposition(df) ==
  LET has(cols, c) == \E i \in 1..Len(cols) : cols[i] = c
      c1 == IF has(df.cols, L_item_price) /\ has(df.cols, L_cost)
            THEN CostAfterPrice(df.cols) ELSE df.cols
      c2 == IF has(c1, L_asin) /\ has(c1, L_Vendor_SKU)
            THEN VendorAfterAsin(SelectSeq(c1, LAMBDA c : c # L_Vendor_SKU)) ELSE c1
  IN Reorder(df, c2)

(* variant of CostValue without the fillna(0) *)
CostValue_no_fillna(c) == to_numeric(c)

(* pd.to_numeric(Working["cost"], errors="coerce").fillna(0) *)
CostValue(c) == fillna0(to_numeric(c))

(* Step 6: cost, by name or else the 8th column; numeric, 0 when missing *)
Step6 ==
  /\ pc = "step6"
  /\ IF CpCandidates(pm.cols) = <<>> /\ Len(pm.cols) < CpOrdinal
     THEN Fail("IndexError", Digits(CpOrdinal - 1))
     ELSE LET cc == IF CpCandidates(pm.cols) # <<>>
                    THEN Head(CpCandidates(pm.cols)) ELSE pm.cols[CpOrdinal]
              mapped == MapColumn(Working, L_cost, set_index(pm_unique, cc))
              costed == SetCol(mapped, L_cost, LAMBDA r : CostValue(Get(mapped, r, L_cost)))
              skued == IF HasCol(costed, L_sku)
                       THEN SetCol(costed, L_sku, LAMBDA r : astype_str(Get(costed, r, L_sku)))
                       ELSE costed
          IN /\ cp_col' = cc
             /\ cp_map' = set_index(pm_unique, cc)
             /\ Working' = Reposition(skued)
             /\ pc' = "step7"
             /\ UNCHANGED <<inputs, pm, pm_unique, bm_col, brand_col, vendor_col, bm_map,
                            brand_map, vendor_map, original_count, outputs, views, error>>

----------------------------------------------------------------------------
(* Filtering *)

(* Working['quantity'] != 0 *)
QuantityKept(c) == c # Num(0)

(* Working['item-price'] != 0, on the coerced price *)
PriceKept(c) == c # Num(0)

(* notna, and the trimmed text is neither "-" nor "" *)
NameKept(c) ==
  /\ notna(c)
  /\ Strip(astype_str(c).s) # T_dash
  /\ Strip(astype_str(c).s) # <<>>

(* variant of StatusKept: the status is compared without regard to case *)
StatusKept_AnyCase(c) == ~(c.k = "str" /\ Lower(c.s) = Lower(T_Cancelled))

(* Working['item-status'] != 'Cancelled' *)
StatusKept(c) == c # Str(T_Cancelled)

FilterData(df) ==
  LET f1 == FilterRows(df, LAMBDA r : QuantityKept(Get(df, r, L_quantity)))
      f2 == SetCol(f1, L_item_price, LAMBDA r : to_numeric(Get(f1, r, L_item_price)))
      f3 == FilterRows(f2, LAMBDA r : PriceKept(Get(f2, r, L_item_price)))
      f4 == FilterRows(f3, LAMBDA r : NameKept(Get(f3, r, L_product_name)))
  IN FilterRows(f4, LAMBDA r : StatusKept(Get(f4, r, L_item_status)))

FirstMissing(df, names) ==
  names[CHOOSE i \in 1..Len(names) :
          ~HasCol(df, names[i]) /\ \A j \in 1..(i - 1) : HasCol(df, names[j])]

(* Step 7: the filter *)
Step7 ==
  /\ pc = "step7"
  /\ LET needed == <<L_quantity, L_item_price, L_product_name, L_item_status>>
     IN IF \E i \in 1..Len(needed) : ~HasCol(Working, needed[i])
        THEN Fail("KeyError", FirstMissing(Working, needed))
        ELSE /\ original_count' = Len(Working.rows)
             /\ Working' = FilterData(Working)
             /\ pc' = "raw"
             /\ UNCHANGED <<inputs, pm, resolved, outputs, views, error>>

----------------------------------------------------------------------------
(* Ordering of keys, as the sorted group keys of pandas *)
Ascii ==
  <<"\t", " ", "-", "/", "0", "1", "2", "3", "4", "5", "6", "7", "8", "9">>
  \o UpperCase \o <<"_">> \o LowerCase
Ord(c) == CHOOSE i \in 1..Len(Ascii) : Ascii[i] = c

RECURSIVE StrLess(_, _)
StrLess(s, t) ==
  IF t = <<>> THEN FALSE
  ELSE IF s = <<>> THEN TRUE
  ELSE IF Head(s) = Head(t) THEN StrLess(Tail(s), Tail(t))
  ELSE Ord(Head(s)) < Ord(Head(t))

(* numbers before text, NaN last *)
CellLess(a, b) ==
  CASE a.k = "num" /\ b.k = "num" -> a.n < b.n
    [] a.k = "str" /\ b.k = "str" -> StrLess(a.s, b.s)
    [] a.k = "num" -> b.k # "num"
    [] a.k = "str" -> b.k = "nan"
    [] OTHER -> FALSE

RECURSIVE SortCells(_)
SortCells(S) ==
  IF S = {} THEN <<>>
  ELSE LET m == CHOOSE x \in S : \A y \in S \ {x} : CellLess(x, y)
       IN <<m>> \o SortCells(S \ {m})

RECURSIVE SumSeq(_)
SumSeq(q) == IF q = <<>> THEN 0 ELSE Head(q) + SumSeq(Tail(q))

(* the sum of a column over the rows satisfying sel (NaN skipped) *)
SumWhere(df, col, sel(_)) ==
  LET rows == SelectSeq(df.rows, sel)
  IN SumSeq([i \in 1..Len(rows) |-> SumVal(Get(df, rows[i], col))])

----------------------------------------------------------------------------
(* Export of the processed orders, and the key metrics *)
Sheet(name, data) == [sheet |-> name, data |-> data]

(* raw_output: Working.to_excel(writer, sheet_name='Processed Orders') *)
RawExport ==
  /\ pc = "raw"
  /\ artifacts' = Append(artifacts, Sheet("Processed Orders", Working))
  /\ pc' = "metrics"
  /\ UNCHANGED <<inputs, Working, pm, resolved, original_count, downloads, views, error>>

(* Working.groupby(col)['item-price'].sum() has a row: some key is not NaN *)
HasGroup(df, col) == \E i \in 1..Len(df.rows) : notna(Get(df, df.rows[i], col))

(* Key metrics (idxmax of an empty group-by raises), then the first download *)
Metrics ==
  /\ pc = "metrics"
  /\ IF ~HasGroup(Working, L_Brand) \/ ~HasGroup(Working, L_Brand_Manager)
     THEN Fail("ValueError", <<>>)
     ELSE /\ downloads' = downloads \cup {"download_raw_top"}
          /\ pc' = "tab1"
          /\ UNCHANGED <<inputs, Working, pm, resolved, original_count, artifacts, views,
                         error>>

----------------------------------------------------------------------------
(* Views A and B: key x date *)

(* aggfunc="sum" on the object column quantity raises when a group holds a *)
(* text and a number (unsupported operand types for +)                     *)
UnsummableGroup(df, key) ==
  \E i, j \in 1..Len(df.rows) :
    /\ notna(Get(df, df.rows[i], key)) /\ notna(Get(df, df.rows[i], L_date))
    /\ Get(df, df.rows[i], key) = Get(df, df.rows[j], key)
    /\ Get(df, df.rows[i], L_date) = Get(df, df.rows[j], L_date)
    /\ Get(df, df.rows[i], L_quantity).k = "str"
    /\ Get(df, df.rows[j], L_quantity).k = "num"

(* pd.pivot_table(Working, index=key, columns="date",                      *)
(*                values=["quantity", "item-price"], aggfunc="sum",        *)
(*                fill_value=0): rows with a NaN key or date are left out  *)
pivot_table_by_date(df, key) ==
  LET used == SelectSeq(df.rows,
                        LAMBDA r : notna(Get(df, r, key)) /\ notna(Get(df, r, L_date)))
      index == SortCells({Get(df, used[i], key) : i \in 1..Len(used)})
      columns == SortCells({Get(df, used[i], L_date) : i \in 1..Len(used)})
      total(k, d, col) ==
        SumWhere(Frame(df.cols, used), col,
                 LAMBDA r : Get(df, r, key) = k /\ Get(df, r, L_date) = d)
  IN [index |-> index,
      columns |-> columns,
      data |-> [i \in 1..Len(index) |->
                  [j \in 1..Len(columns) |->
                     [quantity |-> total(index[i], columns[j], L_quantity),
                      item_price |-> total(index[i], columns[j], L_item_price)]]]]

(* pivot.sum(numeric_only=True) as a row labelled "Grand Total", appended *)
with_grand_total(pv) ==
  [index |-> Append(pv.index, Str(T_Grand_Total)),
   columns |-> pv.columns,
   data |-> Append(pv.data,
              [j \in 1..Len(pv.columns) |->
                 [quantity |-> SumSeq([i \in 1..Len(pv.index) |-> pv.data[i][j].quantity]),
                  item_price |-> SumSeq([i \in 1..Len(pv.index) |-> pv.data[i][j].item_price])]])]

(* Tab 1: brand manager x date, written and offered for download *)
Tab1 ==
  /\ pc = "tab1"
  /\ IF UnsummableGroup(Working, L_Brand_Manager)
     THEN Fail("TypeError", <<>>)
     ELSE /\ pivot_Brand_Manager' = pivot_table_by_date(Working, L_Brand_Manager)
          /\ artifacts' = Append(artifacts, Sheet("Brand Manager Analysis",
                      with_grand_total(pivot_table_by_date(Working, L_Brand_Manager))))
          /\ downloads' = downloads \cup {"brand_manager_analysis.xlsx"}
          /\ pc' = "tab2"
          /\ UNCHANGED <<inputs, Working, pm, resolved, original_count, pivot_Brand,
                         pivot_Brand_ASIN, combined, error>>

(* Tab 2: brand x date *)
Tab2 ==
  /\ pc = "tab2"
  /\ pivot_Brand' = pivot_table_by_date(Working, L_Brand)
  /\ artifacts' = Append(artifacts,
                       Sheet("Brand Analysis",
                             with_grand_total(pivot_table_by_date(Working, L_Brand))))
  /\ downloads' = downloads \cup {"brand_analysis.xlsx"}
  /\ pc' = "tab3"
  /\ UNCHANGED <<inputs, Working, pm, resolved, original_count, pivot_Brand_Manager,
                 pivot_Brand_ASIN, combined, error>>

(* a stable sort of a sequence: x goes after every element not after it *)
SortBy(seq, Before(_, _)) ==
  LET Insert(sorted, x) ==
        LET at == IF \E i \in 1..Len(sorted) : ~Before(x, sorted[i])
                  THEN CHOOSE i \in 1..Len(sorted) :
                         /\ ~Before(x, sorted[i])
                         /\ \A j \in (i + 1)..Len(sorted) : Before(x, sorted[j])
                  ELSE 0
        IN SubSeq(sorted, 1, at) \o <<x>> \o SubSeq(sorted, at + 1, Len(sorted))
      RECURSIVE Sorted(_)
      Sorted(n) == IF n = 0 THEN <<>> ELSE Insert(Sorted(n - 1), seq[n])
  IN Sorted(Len(seq))

RECURSIVE SetToSeq(_)
SetToSeq(S) ==
  IF S = {} THEN <<>> ELSE LET x == CHOOSE x \in S : TRUE IN <<x>> \o SetToSeq(S \ {x})

(* lexicographic order of two key tuples, NaN last in every position *)
RECURSIVE KeysLess(_, _)
KeysLess(a, b) ==
  IF a = <<>> THEN FALSE
  ELSE IF Head(a) = Head(b) THEN KeysLess(Tail(a), Tail(b))
  ELSE CellLess(Head(a), Head(b))

(* df.groupby(keys, dropna=dropna)[agg_cols].sum().reset_index() over rows  *)
(* that are records: one row per key tuple, in sorted key order             *)
groupby_sum(rows, keys, dropna) ==
  LET KeyOf(r) == [i \in 1..Len(keys) |-> r[keys[i]]]
      used == SelectSeq(rows, LAMBDA r : ~dropna \/ \A i \in 1..Len(keys) : notna(r[keys[i]]))
      index == SortBy(SetToSeq({KeyOf(used[i]) : i \in 1..Len(used)}), KeysLess)
      total(k, col) ==
        LET g == SelectSeq(used, LAMBDA r : KeyOf(r) = k)
        IN SumSeq([i \in 1..Len(g) |-> g[i][col]])
  IN [i \in 1..Len(index) |->
        [key |-> index[i],
         quantity |-> total(index[i], "quantity"),
         item_price |-> total(index[i], "item_price"),
         cost |-> total(index[i], "cost")]]

(* the columns of Working the summaries read, one record per order *)
Records(df) ==
  [i \in 1..Len(df.rows) |->
     [asin |-> Get(df, df.rows[i], L_asin),
      bm |-> Get(df, df.rows[i], L_Brand_Manager),
      brand |-> Get(df, df.rows[i], L_Brand),
      quantity |-> SumVal(Get(df, df.rows[i], L_quantity)),
      item_price |-> SumVal(Get(df, df.rows[i], L_item_price)),
      cost |-> SumVal(Get(df, df.rows[i], L_cost)),
      order |-> 0]]

SummaryRow(bm, brand, asin, g, order) ==
  [bm |-> bm, brand |-> brand, asin |-> asin, quantity |-> g.quantity,
   item_price |-> g.item_price, cost |-> g.cost, order |-> order]

(* pd.pivot_table(Working, index=["asin", "Brand"], values=[...], aggfunc="sum") *)
(* then sort_index(level=["Brand", "asin"])                                      *)
pivot_table_brand_asin(df) ==
  LET g == groupby_sum(Records(df), <<"asin", "brand">>, TRUE)
      rows == [i \in 1..Len(g) |-> SummaryRow(NaN, g[i].key[2], g[i].key[1], g[i], 0)]
  IN SortBy(rows, LAMBDA x, y : KeysLess(<<x.brand, x.asin>>, <<y.brand, y.asin>>))

(* the column sums of a summary *)
Totals(rows) ==
  [quantity |-> SumSeq([i \in 1..Len(rows) |-> rows[i].quantity]),
   item_price |-> SumSeq([i \in 1..Len(rows) |-> rows[i].item_price]),
   cost |-> SumSeq([i \in 1..Len(rows) |-> rows[i].cost])]

(* the row ("Grand Total", "") appended to the brand / identifier summary *)
pivot_Brand_ASIN_with_total(pv) ==
  Append(pv, SummaryRow(NaN, Str(<<>>), Str(T_Grand_Total), Totals(pv), 0))

(* Tab 3: brand and identifier summary *)
Tab3 ==
  /\ pc = "tab3"
  /\ pivot_Brand_ASIN' = pivot_table_brand_asin(Working)
  /\ artifacts' = Append(artifacts, Sheet("Brand_ASIN_Summary",
              pivot_Brand_ASIN_with_total(pivot_table_brand_asin(Working))))
  /\ downloads' = downloads \cup {"brand_asin_summary.xlsx"}
  /\ pc' = "tab4"
  /\ UNCHANGED <<inputs, Working, pm, resolved, original_count, pivot_Brand_Manager,
                 pivot_Brand, combined, error>>

(* base: one row per (asin, Brand Manager, Brand), NaN keys kept, sorted by *)
(* manager, brand, then quantity descending                                 *)
base_rows(df) ==
  LET g == groupby_sum(Records(df), <<"asin", "bm", "brand">>, FALSE)
      rows == [i \in 1..Len(g) |->
                 SummaryRow(g[i].key[2], g[i].key[3], g[i].key[1], g[i], 0)]
  IN SortBy(rows,
            LAMBDA x, y :
              \/ KeysLess(<<x.bm, x.brand>>, <<y.bm, y.brand>>)
              \/ <<x.bm, x.brand>> = <<y.bm, y.brand>> /\ y.quantity < x.quantity)

(* brand subtotals: per (manager, brand), labelled "<brand> Total" *)
brand_totals(base) ==
  LET g == groupby_sum(base, <<"bm", "brand">>, TRUE)
  IN [i \in 1..Len(g) |->
        SummaryRow(g[i].key[1], g[i].key[2], Str(g[i].key[2].s \o T_Total), g[i], 1)]

(* manager subtotals: per manager, brand blank, labelled "<manager> Total" *)
manager_totals(base) ==
  LET g == groupby_sum(base, <<"bm">>, TRUE)
  IN [i \in 1..Len(g) |->
        SummaryRow(g[i].key[1], Str(<<>>), Str(g[i].key[1].s \o T_Total), g[i], 2)]

(* the grand total row *)
grand_total(base) == <<SummaryRow(Str(<<>>), Str(<<>>), Str(T_Grand_Total), Totals(base), 3)>>

is_grand(r) == IF r.asin = Str(T_Grand_Total) THEN 1 ELSE 0

(* combined.sort_values(by=["is_grand", "Brand Manager", "Brand", "order",       *)
(*                          "quantity"], ascending=[True, True, True, True, False]) *)
CombinedBefore(x, y) ==
  LET kx == <<Num(is_grand(x)), x.bm, x.brand, Num(x.order)>>
      ky == <<Num(is_grand(y)), y.bm, y.brand, Num(y.order)>>
  IN KeysLess(kx, ky) \/ (kx = ky /\ y.quantity < x.quantity)

combined_rows(df) ==
  LET base == base_rows(df)
  IN SortBy(base \o brand_totals(base) \o manager_totals(base) \o grand_total(base),
            CombinedBefore)

(* <text column> + " Total" raises when a group key is a number *)
TotalLabelFails(base) ==
  \/ \E i \in 1..Len(base) :
       notna(base[i].bm) /\ notna(base[i].brand) /\ base[i].brand.k = "num"
  \/ \E i \in 1..Len(base) : base[i].bm.k = "num"

(* Tab 4: manager / brand / identifier summary with subtotals *)
Tab4 ==
  /\ pc = "tab4"
  /\ IF TotalLabelFails(base_rows(Working))
     THEN Fail("TypeError", <<>>)
     ELSE /\ combined' = combined_rows(Working)
          /\ artifacts' = Append(artifacts, Sheet("BM_Brand_ASIN_Summary", combined_rows(Working)))
          /\ downloads' = downloads \cup {"bm_brand_asin_summary.xlsx"}
          /\ pc' = "finish"
          /\ UNCHANGED <<inputs, Working, pm, resolved, original_count,
                         pivot_Brand_Manager, pivot_Brand, pivot_Brand_ASIN, error>>

(* the processed orders again, the second download, "Analysis complete" *)
Finish ==
  /\ pc = "finish"
  /\ downloads' = downloads \cup {"download_raw_bottom"}
  /\ pc' = "done"
  /\ UNCHANGED <<inputs, Working, pm, resolved, original_count, artifacts, views, error>>

(* the page is run again from the top: nothing of the last run is kept *)
Rerun ==
  /\ pc \in {"done", "failed"}
  /\ pc' = "idle"
  /\ Working' = EmptyFrame /\ pm' = EmptyFrame /\ pm_unique' = EmptyFrame
  /\ bm_col' = NoCol /\ brand_col' = NoCol /\ vendor_col' = NoCol /\ cp_col' = NoCol
  /\ bm_map' = NoSeries /\ brand_map' = NoSeries /\ vendor_map' = NoSeries
  /\ cp_map' = NoSeries
  /\ original_count' = 0
  /\ artifacts' = <<>> /\ downloads' = {}
  /\ error' = NoError
  /\ pivot_Brand_Manager' = <<>> /\ pivot_Brand' = <<>>
  /\ pivot_Brand_ASIN' = <<>> /\ combined' = <<>>
  /\ UNCHANGED inputs

Next ==
  \/ Generate \/ Step1 \/ Step2 \/ Step3 \/ Step4 \/ Step5 \/ Step6 \/ Step7
  \/ RawExport \/ Metrics \/ Tab1 \/ Tab2 \/ Tab3 \/ Tab4 \/ Finish \/ Rerun

Spec == Init /\ [][Next]_vars

----------------------------------------------------------------------------
(* The older page, src/sales_06.py.  Loading, the date, the labels, the     *)
(* identifiers, the brand maps and the filter are the code of app2.py line   *)
(* by line; there is no vendor step, the processed orders are written at the *)
(* end, views A and B have no total row and view D has no subtotals.         *)

(* Step 5 of sales_06.py: cost, by name or else the 8th column *)
Step5_06 ==
  /\ pc = "step5"
  /\ IF CpCandidates(pm.cols) = <<>> /\ Len(pm.cols) < CpOrdinal
     THEN Fail("IndexError", Digits(CpOrdinal - 1))
     ELSE LET cc == IF CpCandidates(pm.cols) # <<>>
                    THEN Head(CpCandidates(pm.cols)) ELSE pm.cols[CpOrdinal]
              mapped == MapColumn(Working, L_cost, set_index(pm_unique, cc))
              costed == SetCol(mapped, L_cost, LAMBDA r : CostValue(Get(mapped, r, L_cost)))
          IN /\ cp_col' = cc
             /\ cp_map' = set_index(pm_unique, cc)
             /\ Working' = IF HasCol(costed, L_item_price)
                           THEN Reorder(costed, CostAfterPrice(costed.cols)) ELSE costed
             /\ pc' = "step7"
             /\ UNCHANGED <<inputs, pm, pm_unique, bm_col, brand_col, vendor_col, bm_map,
                            brand_map, vendor_map, original_count, outputs, views, error>>

(* Key metrics of sales_06.py: nothing is written before them *)
Metrics_06 ==
  /\ pc = "raw"
  /\ IF ~HasGroup(Working, L_Brand) \/ ~HasGroup(Working, L_Brand_Manager)
     THEN Fail("ValueError", <<>>)
     ELSE /\ pc' = "tab1"
          /\ UNCHANGED <<inputs, Working, pm, resolved, original_count, outputs, views,
                         error>>

(* Tab 1 of sales_06.py: the pivot is written as it is *)
Tab1_06 ==
  /\ pc = "tab1"
  /\ IF UnsummableGroup(Working, L_Brand_Manager)
     THEN Fail("TypeError", <<>>)
     ELSE /\ pivot_Brand_Manager' = pivot_table_by_date(Working, L_Brand_Manager)
          /\ artifacts' = Append(artifacts, Sheet("Brand Manager Analysis",
                                      pivot_table_by_date(Working, L_Brand_Manager)))
          /\ downloads' = downloads \cup {"brand_manager_analysis.xlsx"}
          /\ pc' = "tab2"
          /\ UNCHANGED <<inputs, Working, pm, resolved, original_count, pivot_Brand,
                         pivot_Brand_ASIN, combined, error>>

(* Tab 2 of sales_06.py *)
Tab2_06 ==
  /\ pc = "tab2"
  /\ pivot_Brand' = pivot_table_by_date(Working, L_Brand)
  /\ artifacts' = Append(artifacts, Sheet("Brand Analysis",
                                          pivot_table_by_date(Working, L_Brand)))
  /\ downloads' = downloads \cup {"brand_analysis.xlsx"}
  /\ pc' = "tab3"
  /\ UNCHANGED <<inputs, Working, pm, resolved, original_count, pivot_Brand_Manager,
                 pivot_Brand_ASIN, combined, error>>

(* index=["Brand", "asin"]: the row ("Grand Total", "") has the label in the *)
(* brand slot and an empty identifier                                        *)
pivot_Brand_ASIN_with_total_06(pv) ==
  Append(pv, SummaryRow(NaN, Str(T_Grand_Total), Str(<<>>), Totals(pv), 0))

(* Tab 3 of sales_06.py *)
Tab3_06 ==
  /\ pc = "tab3"
  /\ pivot_Brand_ASIN' = pivot_table_brand_asin(Working)
  /\ artifacts' = Append(artifacts, Sheet("Brand_ASIN_Summary",
              pivot_Brand_ASIN_with_total_06(pivot_table_brand_asin(Working))))
  /\ downloads' = downloads \cup {"brand_asin_summary.xlsx"}
  /\ pc' = "tab4"
  /\ UNCHANGED <<inputs, Working, pm, resolved, original_count, pivot_Brand_Manager,
                 pivot_Brand, combined, error>>

(* pd.pivot_table(Working, index=["Brand Manager", "Brand", "asin"], ...),   *)
(* then sort_values(by manager, brand, quantity descending)                  *)
pivot_BM_Brand_ASIN_sorted(df) ==
  LET g == groupby_sum(Records(df), <<"bm", "brand", "asin">>, TRUE)
      rows == [i \in 1..Len(g) |->
                 SummaryRow(g[i].key[1], g[i].key[2], g[i].key[3], g[i], 0)]
  IN SortBy(rows,
            LAMBDA x, y :
              \/ KeysLess(<<x.bm, x.brand>>, <<y.bm, y.brand>>)
              \/ <<x.bm, x.brand>> = <<y.bm, y.brand>> /\ y.quantity < x.quantity)

(* Tab 4 of sales_06.py: no subtotal and no total rows *)
Tab4_06 ==
  /\ pc = "tab4"
  /\ combined' = pivot_BM_Brand_ASIN_sorted(Working)
  /\ artifacts' = Append(artifacts, Sheet("BM_Brand_ASIN_Summary",
                                          pivot_BM_Brand_ASIN_sorted(Working)))
  /\ downloads' = downloads \cup {"bm_brand_asin_summary.xlsx"}
  /\ pc' = "finish"
  /\ UNCHANGED <<inputs, Working, pm, resolved, original_count,
                 pivot_Brand_Manager, pivot_Brand, pivot_Brand_ASIN, error>>

(* the processed orders, written and offered last *)
Finish_06 ==
  /\ pc = "finish"
  /\ artifacts' = Append(artifacts, Sheet("Processed Orders", Working))
  /\ downloads' = downloads \cup {"processed_orders_raw.xlsx"}
  /\ pc' = "done"
  /\ UNCHANGED <<inputs, Working, pm, resolved, original_count, views, error>>

Next06 ==
  \/ Generate \/ Step1 \/ Step2 \/ Step3 \/ Step4 \/ Step5_06 \/ Step7
  \/ Metrics_06 \/ Tab1_06 \/ Tab2_06 \/ Tab3_06 \/ Tab4_06 \/ Finish_06 \/ Rerun

Spec06 == Init /\ [][Next06]_vars

----------------------------------------------------------------------------
(* Vocabulary of the properties: the fields of the uploaded rows, read by    *)
(* normalised label, and how far a run has come.                             *)
OrderFields(frame) ==
  LET f == NormalizeColumns(frame)
      ts == ColIdx(f, L_purchase_date)
      nm == ColIdx(f, L_product_name)
      id == ColIdx(f, L_asin)
      st == ColIdx(f, L_item_status)
      qt == ColIdx(f, L_quantity)
      pr == ColIdx(f, L_item_price)
  IN [i \in 1..Len(frame.rows) |->
        [ts |-> frame.rows[i][ts], name |-> frame.rows[i][nm],
         asin |-> str_strip(astype_str(frame.rows[i][id])),
         status |-> frame.rows[i][st], quantity |-> frame.rows[i][qt],
         price |-> to_numeric(frame.rows[i][pr])]]

(* the enrichment columns of Working, row by row *)
EnrichedFields(frame) ==
  LET bm == ColIdx(frame, L_Brand_Manager)
      br == ColIdx(frame, L_Brand)
      id == ColIdx(frame, L_asin)
  IN [i \in 1..Len(frame.rows) |->
        [asin |-> frame.rows[i][id], bm |-> frame.rows[i][bm],
         brand |-> frame.rows[i][br]]]

(* the product rows that can be looked up, in input order *)
RefFields(frame) ==
  LET f == NormalizeColumns(frame)
      id == ColIdx(f, L_asin)
      all == [i \in 1..Len(frame.rows) |->
                [asin |-> str_strip(astype_str(frame.rows[i][id])), row |-> frame.rows[i]]]
  IN SelectSeq(all, LAMBDA r : r.asin \notin {Str(<<>>), Str(<<"n", "a", "n">>)})

(* stages reached (also of a run that failed later) *)
MapsBuilt == bm_col # NoCol
VendorMapped == vendor_col # NoCol
Enriched == cp_col # NoCol
Filtered == Len(artifacts) >= 1 \/ pc = "raw"
ViewADone == Len(artifacts) >= 2
ViewBDone == Len(artifacts) >= 3
ViewCDone == Len(artifacts) >= 4
ViewDDone == Len(artifacts) >= 5

NumericRow(r) == r.quantity.k = "num" /\ r.price.k = "num"

(* the retention rule as the specification words it, for a numeric row *)
RetainRule(r) ==
  /\ r.quantity.n # 0
  /\ r.price.n # 0
  /\ r.name.k = "str"
  /\ Strip(r.name.s) \notin {<<>>, <<"-">>}
  /\ r.status # Str(<<"C", "a", "n", "c", "e", "l", "l", "e", "d">>)

ViewSum(pv, f(_)) ==
  SumSeq([i \in 1..Len(pv.index) |->
            SumSeq([j \in 1..Len(pv.columns) |-> f(pv.data[i][j])])])

(* the quantities of rows, counted where the matching enrichment passes sel *)
QtyWhere(rows, enr, sel(_)) ==
  SumSeq([i \in 1..Len(rows) |-> IF sel(enr[i]) THEN rows[i].quantity.n ELSE 0])

(* C1: for sheets whose quantities and prices are numeric, the rows left by   *)
(* the filter are exactly the uploaded rows with quantity # 0, price # 0, a   *)
(* product name that is present and, trimmed, neither empty nor "-", and a    *)
(* status other than "Cancelled"; the exported Processed Orders sheet holds   *)
(* exactly these rows, and the quantity totals of the four views are sums     *)
(* over these rows only.                                                      *)
C1_FilterRetainsIff ==
  Filtered =>
    LET up == OrderFields(orders_file.frame)
        exp == SelectSeq(up, RetainRule)
        enr == EnrichedFields(Working)
    IN (\A i \in 1..Len(up) : NumericRow(up[i])) =>
         /\ OrderFields(Working) = exp
         /\ Len(artifacts) >= 1 =>
              /\ artifacts[1].sheet = "Processed Orders"
              /\ OrderFields(artifacts[1].data) = exp
         /\ ViewADone =>
              ViewSum(pivot_Brand_Manager, LAMBDA c : c.quantity)
                = QtyWhere(exp, enr, LAMBDA e : notna(e.bm))
         /\ ViewBDone =>
              ViewSum(pivot_Brand, LAMBDA c : c.quantity)
                = QtyWhere(exp, enr, LAMBDA e : notna(e.brand))
         /\ ViewCDone =>
              /\ Totals(pivot_Brand_ASIN).quantity
                   = QtyWhere(exp, enr, LAMBDA e : notna(e.brand))
              /\ \A k \in 1..Len(pivot_Brand_ASIN) :
                   \E i \in 1..Len(exp) : exp[i].asin = pivot_Brand_ASIN[k].asin
         /\ ViewDDone =>
              /\ \A k \in 1..Len(combined) :
                   combined[k].order = 3 =>
                     combined[k].quantity = QtyWhere(exp, enr, LAMBDA e : TRUE)
              /\ \A k \in 1..Len(combined) :
                   combined[k].order = 0 =>
                     \E i \in 1..Len(exp) : exp[i].asin = combined[k].asin

(* a finished run on a numeric sheet of which the filter dropped one row and kept one *)
C1_Witness ==
  /\ pc = "done"
  /\ \A i \in 1..Len(orders_file.frame.rows) :
       NumericRow(OrderFields(orders_file.frame)[i])
  /\ Len(orders_file.frame.rows) = 2 /\ Len(Working.rows) = 1

----------------------------------------------------------------------------
Cell(frame, i, label) == frame.rows[i][ColIdx(frame, label)]

(* the cell of a product row in a column of the (normalised) product master *)
RefCell(r, label) == r.row[ColIdx(pm, label)]

KnownIds(refs) == {refs[j].asin : j \in 1..Len(refs)}

(* the first product row, in input order, satisfying P *)
FirstRef(refs, P(_)) ==
  refs[CHOOSE j \in 1..Len(refs) : P(refs[j]) /\ \A h \in 1..(j - 1) : ~P(refs[h])]

(* C2: a row whose price is text that is no number is not among the rows the *)
(* filter leaves.                                                            *)
C2_UncoerciblePriceDropped ==
  Filtered =>
    LET f == NormalizeColumns(orders_file.frame)
        pr == ColIdx(f, L_item_price)
        up == OrderFields(orders_file.frame)
        kept == OrderFields(Working)
    IN \A i \in 1..Len(up) :
         (f.rows[i][pr].k = "str" /\ to_numeric(f.rows[i][pr]) = NaN) =>
           \A k \in 1..Len(kept) : kept[k] # up[i]

(* C3: in a finished run the quantities of the filtered orders add up to the *)
(* quantities in view A and to the quantities in view B.                     *)
C3_ViewQuantityConsistent ==
  pc = "done" =>
    LET total == QtyWhere(OrderFields(Working), EnrichedFields(Working), LAMBDA e : TRUE)
    IN /\ ViewSum(pivot_Brand_Manager, LAMBDA c : c.quantity) = total
       /\ ViewSum(pivot_Brand, LAMBDA c : c.quantity) = total

(* identifiers equal up to letter case and surrounding whitespace *)
SameIdLoosely(a, b) == Lower(Strip(a.s)) = Lower(Strip(b.s))

(* the enrichment of order row i is taken from product row r *)
JoinedTo(i, r) ==
  /\ Cell(Working, i, L_Brand_Manager) = RefCell(r, bm_col)
  /\ Cell(Working, i, L_Brand) = RefCell(r, brand_col)
  /\ Cell(Working, i, L_Vendor_SKU) = astype_str(RefCell(r, vendor_col))
  /\ Cell(Working, i, L_cost) = fillna0(to_numeric(RefCell(r, cp_col)))

(* C4: an order whose identifier equals a product's identifier up to case    *)
(* and surrounding whitespace carries that product's brand manager, brand,   *)
(* vendor code and cost.                                                     *)
C4_JoinIgnoresCaseAndPadding ==
  Enriched =>
    LET refs == RefFields(pm_file.frame)
    IN \A i \in 1..Len(Working.rows) :
         (\E j \in 1..Len(refs) : SameIdLoosely(Cell(Working, i, L_asin), refs[j].asin)) =>
           JoinedTo(i, FirstRef(refs,
                                LAMBDA r : SameIdLoosely(Cell(Working, i, L_asin), r.asin)))

UniqueKeys(series) ==
  \A i, j \in 1..Len(series) : series[i].key = series[j].key => i = j

(* the series holds, for every identifier of the product master, the value of *)
(* its first row in column col, and nothing else                              *)
FirstOccurrenceMap(series, refs, col) ==
  /\ UniqueKeys(series)
  /\ {series[i].key : i \in 1..Len(series)} = KnownIds(refs)
  /\ \A i \in 1..Len(series) :
       series[i].val = RefCell(FirstRef(refs, LAMBDA r : r.asin = series[i].key), col)

(* C5: each of the four lookup maps has every identifier once, with the      *)
(* attribute value of the first product row carrying that (trimmed)          *)
(* identifier.                                                               *)
C5_MapsKeepFirstOccurrence ==
  Enriched =>
    LET refs == RefFields(pm_file.frame)
    IN /\ FirstOccurrenceMap(bm_map, refs, bm_col)
       /\ FirstOccurrenceMap(brand_map, refs, brand_col)
       /\ FirstOccurrenceMap(vendor_map, refs, vendor_col)
       /\ FirstOccurrenceMap(cp_map, refs, cp_col)

(* maps built from a product master with two rows of one identifier and        *)
(* different attributes                                                        *)
C5_Witness ==
  /\ Enriched
  /\ LET refs == RefFields(pm_file.frame)
     IN \E i, j \in 1..Len(refs) :
          /\ i < j /\ refs[i].asin = refs[j].asin
          /\ RefCell(refs[i], bm_col) # RefCell(refs[j], bm_col)
          /\ RefCell(refs[i], cp_col) # RefCell(refs[j], cp_col)

(* C6: an order whose identifier is not in the product master has brand and  *)
(* brand manager NaN and cost 0, and stays after the filter when its         *)
(* quantity, price, product name and status pass.                            *)
C6_UnmatchedOrderEnrichedAndKept ==
  Enriched =>
    LET ids == KnownIds(RefFields(pm_file.frame))
        up == OrderFields(orders_file.frame)
        kept == OrderFields(Working)
    IN /\ \A i \in 1..Len(Working.rows) :
            Cell(Working, i, L_asin) \notin ids =>
              /\ Cell(Working, i, L_Brand) = NaN
              /\ Cell(Working, i, L_Brand_Manager) = NaN
              /\ Cell(Working, i, L_cost) = Num(0)
       /\ Filtered =>
            \A i \in 1..Len(up) :
              (up[i].asin \notin ids /\ NumericRow(up[i]) /\ RetainRule(up[i])) =>
                \E k \in 1..Len(kept) : kept[k] = up[i]

(* an order without a product, left by the filter *)
C6_Witness ==
  /\ Filtered
  /\ \E i \in 1..Len(Working.rows) :
       /\ Cell(Working, i, L_asin) \notin KnownIds(RefFields(pm_file.frame))
       /\ Cell(Working, i, L_cost) = Num(0)

(* C7: the vendor code of an order whose identifier is not in the product    *)
(* master is NaN, not text.                                                  *)
C7_UnmatchedVendorIsNull ==
  VendorMapped =>
    LET ids == KnownIds(RefFields(pm_file.frame))
    IN \A i \in 1..Len(Working.rows) :
         Cell(Working, i, L_asin) \notin ids => Cell(Working, i, L_Vendor_SKU) = NaN

(* the cost the product master gives for an identifier is missing or no number *)
NoUsableCost(refs, id) ==
  \/ id \notin KnownIds(refs)
  \/ LET c == RefCell(FirstRef(refs, LAMBDA r : r.asin = id), cp_col)
     IN c.k = "nan" \/ (c.k = "str" /\ \E n \in 1..Len(c.s) : ~IsDigit(c.s[n]))

(* C8: every enriched order has a number as cost, 0 when the product master  *)
(* has no cost for it or a text that is no number; a run fails in the cost   *)
(* step only when no cost column can be found.                               *)
C8_CostAlwaysNumeric ==
  /\ Enriched =>
       LET refs == RefFields(pm_file.frame)
       IN \A i \in 1..Len(Working.rows) :
            /\ Cell(Working, i, L_cost).k = "num"
            /\ NoUsableCost(refs, Cell(Working, i, L_asin)) =>
                 Cell(Working, i, L_cost) = Num(0)
  /\ (pc = "failed" /\ VendorMapped /\ ~Enriched) =>
       /\ error.type = "IndexError"
       /\ CpCandidates(pm.cols) = <<>> /\ Len(pm.cols) < CpOrdinal

(* an order joined to a product whose cost is the text N/A *)
C8_Witness ==
  /\ Enriched
  /\ LET refs == RefFields(pm_file.frame)
     IN \E i \in 1..Len(Working.rows) :
          /\ Cell(Working, i, L_asin) \in KnownIds(refs)
          /\ RefCell(FirstRef(refs, LAMBDA r : r.asin = Cell(Working, i, L_asin)), cp_col)
               = Str(<<"N", "/", "A">>)
          /\ Cell(Working, i, L_cost) = Num(0)

(* C9: a run that failed has written no sheet and offered no download. *)
C9_NoPartialExport == pc = "failed" => (artifacts = <<>> /\ downloads = {})

A_vendor == <<"v", "e", "n", "d", "o", "r">>

(* the error is a RequiredColumnMissingError whose text names the attribute *)
NamesMissing(e, attr) == e.type = "RequiredColumnMissingError" /\ Contains(Lower(e.key), attr)

HasStep3Columns == HasCol(pm, L_asin) /\ HasCol(Working, L_asin) /\ HasCol(Working, L_date)

(* C10: when the brand manager, brand, vendor code or cost column cannot be  *)
(* found by name or by position the run fails, with a                        *)
(* RequiredColumnMissingError naming the attribute.                          *)
C10_MissingColumnNamed ==
  /\ (pc = "step5" => BmCandidates(pm.cols) # <<>> /\ BrandCandidates(pm.cols) # <<>>)
  /\ (pc = "step6" => VendorCandidates(pm.cols) # <<>> \/ Len(pm.cols) >= VendorOrdinal)
  /\ (pc = "step7" => CpCandidates(pm.cols) # <<>> \/ Len(pm.cols) >= CpOrdinal)
  /\ (pc = "failed" /\ error.type \notin {"ReadError", "KeyError"} /\ HasStep3Columns) =>
       /\ (~MapsBuilt /\ BmCandidates(pm.cols) = <<>>) =>
            NamesMissing(error, L_brand) /\ NamesMissing(error, L_manager)
       /\ (~MapsBuilt /\ BmCandidates(pm.cols) # <<>>) => NamesMissing(error, L_brand)
       /\ (MapsBuilt /\ ~VendorMapped) => NamesMissing(error, A_vendor)
       /\ (VendorMapped /\ ~Enriched) => NamesMissing(error, L_cost)

----------------------------------------------------------------------------
(* the uploaded orders sheet has a column whose label is the given one up to *)
(* letter case and surrounding whitespace                                    *)
ResolvesAfterNormalization(label) == HasCol(NormalizeColumns(orders_file.frame), label)

(* C11: the labels of the orders sheet are normalised before a column is     *)
(* read by name: when the sheet has a purchase-date column up to letter case *)
(* and surrounding whitespace, the run does not fail on that column and,     *)
(* once the date step is over, every order has its calendar date.            *)
C11_LabelsNormalizedBeforeUse ==
  ResolvesAfterNormalization(L_purchase_date) =>
    /\ ~(pc = "failed" /\ error = Err("KeyError", L_purchase_date))
    /\ pc = "step2" =>
         /\ HasCol(Working, L_date)
         /\ \A i \in 1..Len(Working.rows) :
              Cell(Working, i, L_date) = to_date(OrderFields(orders_file.frame)[i].ts)

----------------------------------------------------------------------------
(* the sheet of a key x date view ends with one row labelled "Grand Total",  *)
(* and that row holds, date by date, the sums over the rows before it        *)
EndsWithGrandTotal(v) ==
  LET n == Len(v.index)
  IN /\ n >= 1
     /\ v.index[n] = Str(T_Grand_Total)
     /\ \A i \in 1..(n - 1) : v.index[i] # Str(T_Grand_Total)
     /\ \A j \in 1..Len(v.columns) :
          /\ v.data[n][j].quantity
               = SumSeq([i \in 1..(n - 1) |-> v.data[i][j].quantity])
          /\ v.data[n][j].item_price
               = SumSeq([i \in 1..(n - 1) |-> v.data[i][j].item_price])

(* C12: the written sheets of view A (brand manager x date) and of view B    *)
(* (brand x date) each end with exactly one "Grand Total" row, the last one, *)
(* whose value in every date column is the sum of the group rows.            *)
C12_DateViewsEndWithGrandTotal ==
  \A k \in 1..Len(artifacts) :
    artifacts[k].sheet \in {"Brand Manager Analysis", "Brand Analysis"} =>
      EndsWithGrandTotal(artifacts[k].data)

----------------------------------------------------------------------------
(* rows i < j are in ascending order of (brand, identifier) *)
SortedByBrandThenAsin(rows) ==
  \A i, j \in 1..Len(rows) :
    i < j => KeysLess(<<rows[i].brand, rows[i].asin>>, <<rows[j].brand, rows[j].asin>>)

(* C13: the written sheet of view C has its group rows in ascending order of *)
(* brand, then identifier, followed by one last row with "Grand Total" in    *)
(* the identifier slot and an empty brand slot, whose quantity, revenue and  *)
(* cost are the sums of those columns over the group rows.                   *)
C13_BrandAsinViewSortedWithTotal ==
  \A k \in 1..Len(artifacts) :
    artifacts[k].sheet = "Brand_ASIN_Summary" =>
      LET v == artifacts[k].data
          n == Len(v)
          groups == SubSeq(v, 1, n - 1)
      IN /\ n >= 2
         /\ SortedByBrandThenAsin(groups)
         /\ v[n].asin = Str(T_Grand_Total)
         /\ v[n].brand = Str(<<>>)
         /\ v[n].quantity = Totals(groups).quantity
         /\ v[n].item_price = Totals(groups).item_price
         /\ v[n].cost = Totals(groups).cost

----------------------------------------------------------------------------
(* the rows of view D by class: base rows, brand subtotals, manager subtotals *)
BaseRowsOf(v) == SelectSeq(v, LAMBDA r : r.order = 0)
BrandSubtotalsOf(v) == SelectSeq(v, LAMBDA r : r.order = 1)
ManagerSubtotalsOf(v) == SelectSeq(v, LAMBDA r : r.order = 2)

(* the text of a key cell; a missing key has none *)
KeyText(c) == IF c.k = "str" THEN c.s ELSE <<>>

(* t is the one brand subtotal of the group of base row r in view v *)
IsBrandSubtotalOf(v, t, r) ==
  LET group == SelectSeq(BaseRowsOf(v), LAMBDA x : x.bm = r.bm /\ x.brand = r.brand)
  IN /\ t.bm = r.bm /\ t.brand = r.brand
     /\ t.asin = Str(KeyText(r.brand) \o T_Total)
     /\ t.quantity = Totals(group).quantity
     /\ t.item_price = Totals(group).item_price
     /\ t.cost = Totals(group).cost

(* C14: in view D every (brand manager, brand) group that has base rows has  *)
(* exactly one brand-subtotal row, labelled "<brand> Total", whose quantity, *)
(* revenue and cost are the sums over the base rows of the group.            *)
C14_BrandSubtotalPerGroup ==
  ViewDDone =>
    LET base == BaseRowsOf(combined)
        subs == BrandSubtotalsOf(combined)
    IN \A i \in 1..Len(base) :
         /\ \E k \in 1..Len(subs) : IsBrandSubtotalOf(combined, subs[k], base[i])
         /\ \A k, m \in 1..Len(subs) :
              (subs[k].bm = base[i].bm /\ subs[k].brand = base[i].brand
                 /\ subs[m].bm = base[i].bm /\ subs[m].brand = base[i].brand) => k = m

----------------------------------------------------------------------------
(* C15: the last row of view D is the grand-total row, whatever the orders   *)
(* (unmatched identifiers and any identifier text included).                 *)
C15_GrandTotalLast ==
  ViewDDone => combined[Len(combined)] = grand_total(base_rows(Working))[1]

----------------------------------------------------------------------------
(* C16: view D is nested: the base rows of a (brand manager, brand) group    *)
(* stand in descending order of quantity and before the brand subtotal of    *)
(* the group, and the subtotal of a brand manager stands after all base rows *)
(* and brand subtotals of that brand manager.                                *)
C16_NestedSubtotalLayout ==
  ViewDDone =>
    \A i, j \in 1..Len(combined) :
      LET x == combined[i]
          y == combined[j]
      IN /\ (x.order = 0 /\ y.order = 0 /\ x.bm = y.bm /\ x.brand = y.brand /\ i < j)
              => x.quantity >= y.quantity
         /\ (x.order = 0 /\ y.order = 1 /\ x.bm = y.bm /\ x.brand = y.brand) => i < j
         /\ (x.order \in {0, 1} /\ y.order = 2 /\ x.bm = y.bm) => i < j

----------------------------------------------------------------------------
(* C17: the filter step only removes rows: the table after it has the same   *)
(* columns, and each of its rows is, field by field, a row of the table      *)
(* before it (the item-price of a surviving row included).                   *)
C17_FilterOnlyRemovesRows ==
  [][(pc = "step7" /\ pc' = "raw") =>
       /\ Working'.cols = Working.cols
       /\ \A i \in 1..Len(Working'.rows) :
            \E k \in 1..Len(Working.rows) : Working'.rows[i] = Working.rows[k]]_vars

----------------------------------------------------------------------------
(* the value a field adds to a sum when text that is no number counts as 0 *)
CoercedVal(c) == SumVal(to_numeric(c))

(* the column sums over the filtered orders, every field read leniently *)
LenientTotals(df) ==
  [quantity |-> SumSeq([i \in 1..Len(df.rows) |-> CoercedVal(Get(df, df.rows[i], L_quantity))]),
   item_price |-> SumSeq([i \in 1..Len(df.rows) |-> CoercedVal(Get(df, df.rows[i], L_item_price))]),
   cost |-> SumSeq([i \in 1..Len(df.rows) |-> CoercedVal(Get(df, df.rows[i], L_cost))])]

(* what can stop a run after the filter whatever the numeric fields hold:   *)
(* no brand or brand manager group at all, or a brand that is a number      *)
FailsWithoutNumbers ==
  \/ ~HasGroup(Working, L_Brand) \/ ~HasGroup(Working, L_Brand_Manager)
  \/ TotalLabelFails(base_rows(Working))

(* C18: a quantity, price or cost that is no number never stops a run: once  *)
(* the orders are filtered a run fails only for a reason that does not       *)
(* depend on these values, and the totals of view D are the sums with such   *)
(* values counted as zero.                                                   *)
C18_UnparsableCountsAsZero ==
  /\ (pc = "failed" /\ Filtered) => FailsWithoutNumbers
  /\ ViewDDone =>
       \A i \in 1..Len(combined) :
         combined[i].order = 3 =>
           /\ combined[i].quantity = LenientTotals(Working).quantity
           /\ combined[i].item_price = LenientTotals(Working).item_price
           /\ combined[i].cost = LenientTotals(Working).cost

----------------------------------------------------------------------------
(* the exceptions the steps raise *)
FailureTypes == {"ReadError", "KeyError", "IndexError", "ValueError", "TypeError"}

(* a run that is past a step did not meet the condition on which the step    *)
(* raises: no step goes on after its own failure                             *)
NoLocalRecovery ==
  /\ pc \in {"step2", "step3"} => HasCol(Working, L_date)
  /\ MapsBuilt => BmCandidates(pm.cols) # <<>> /\ BrandCandidates(pm.cols) # <<>>
  /\ VendorMapped => VendorCandidates(pm.cols) # <<>> \/ Len(pm.cols) >= VendorOrdinal
  /\ Enriched => CpCandidates(pm.cols) # <<>> \/ Len(pm.cols) >= CpOrdinal
  /\ "download_raw_top" \in downloads =>
       HasGroup(Working, L_Brand) /\ HasGroup(Working, L_Brand_Manager)
  /\ ViewADone => ~UnsummableGroup(Working, L_Brand_Manager)
  /\ ViewDDone => ~TotalLabelFails(base_rows(Working))

(* C19: every exception of a step ends the run at the one handler around the *)
(* steps: the run is failed exactly when an exception is recorded, a run     *)
(* that finished recorded none, no step goes on after its own failure, and   *)
(* from a failed run the page can be run again, which starts a fresh run.    *)
C19_FailuresReachBoundary ==
  /\ pc = "failed" <=> error.type \in FailureTypes
  /\ pc = "done" => error = NoError
  /\ NoLocalRecovery
  /\ pc = "failed" => ENABLED Rerun
  /\ pc = "idle" =>
       /\ ENABLED Generate
       /\ Working = EmptyFrame /\ artifacts = <<>> /\ downloads = {}
       /\ error.type \in {"", "UploadBothFiles"}

(* a run that failed in the last view, after three views were written *)
C19_Witness ==
  /\ pc = "failed" /\ error.type = "TypeError"
  /\ Len(artifacts) = 4
  /\ ENABLED Rerun

----------------------------------------------------------------------------
(* the quantity, revenue and cost of a row of view D *)
Amounts(r) == [quantity |-> r.quantity, item_price |-> r.item_price, cost |-> r.cost]

(* C20: in view D the grand-total row equals, in quantity, revenue and cost, *)
(* the sum of the manager-subtotal rows and the sum of the brand-subtotal    *)
(* rows, also when retained orders lack a brand manager or a brand.          *)
C20_TotalLevelsConsistent ==
  ViewDDone =>
    \A i \in 1..Len(combined) :
      combined[i].order = 3 =>
        /\ Amounts(combined[i]) = Totals(ManagerSubtotalsOf(combined))
        /\ Amounts(combined[i]) = Totals(BrandSubtotalsOf(combined))

====
